---- MODULE Spec2Model ----
(***************************************************************************)
(* The three scripts of the repository as one state machine:               *)
(*   examples/cmd/spk_infer.py  (main, parse_args)                         *)
(*   spk_emb_demo.py            (main)                                     *)
(*   webui_smoke_test.py        (main, check_modules, ensure_chattts)      *)
(* A behaviour is one run of one script.  `world` is what the run finds    *)
(* outside itself (files, importable modules, outcome of the model load);  *)
(* `environ0` is PYTORCH_ENABLE_MPS_FALLBACK as the process was started    *)
(* and `environ` its current value; `trace` is the sequence of external    *)
(* calls the run has made so far.                                          *)
(***************************************************************************)
EXTENDS Integers, Sequences, FiniteSets, TLC

VARIABLES script, pc, platform, environ0, environ, args, world, trace, loadCalls,
          inferCalls, written, statuses, texts, wavs, targets, spk, ensured,
          raised, exitCode

vars == <<script, pc, platform, environ0, environ, args, world, trace, loadCalls,
          inferCalls, written, statuses, texts, wavs, targets, spk, ensured,
          raised, exitCode>>

(***************************************************************************)
(* Bounds                                                                  *)
(***************************************************************************)
\* longest input text file, in characters
MaxFileLen == 5
\* most required modules that fail to import in one run
MaxMissing == 2

(***************************************************************************)
(* Values                                                                  *)
(***************************************************************************)
None == "<None>"
Unset == "<unset>"
NoExit == -1

Platforms == {"darwin", "linux", "win32"}
\* PYTORCH_ENABLE_MPS_FALLBACK before the run: absent, or a value of the user
EnvValues == {Unset, "0", "1"}

\* webui_smoke_test.py:17
REQUIRED_MODULES ==
    <<"torch", "torchaudio", "gradio", "av", "pybase16384",
      "vector_quantize_pytorch", "vocos">>

\* file names as character sequences, so that suffix and stem are computed
spk_control_wav ==
    <<"s","p","k","_","c","o","n","t","r","o","l",".","w","a","v">>
spk_controlled_wav ==
    <<"s","p","k","_","c","o","n","t","r","o","l","l","e","d",".","w","a","v">>
smoke_test_wav ==
    <<"s","m","o","k","e","_","t","e","s","t",".","w","a","v">>
out_wav == <<"o","u","t",".","w","a","v">>

\* a path: its directory components and its final component (pathlib.Path)
Path(dirs, name) == [dirs |-> dirs, name |-> name]

\* spk_emb_demo.py:16
OUTPUT_FILE == Path(<<>>, spk_controlled_wav)

\* the sample rate every script writes its audio with
SAMPLE_RATE == 24000

(***************************************************************************)
(* str, pathlib                                                            *)
(***************************************************************************)
\* the characters str.strip() removes that occur in the modelled files
Whitespace == {" ", "\t", "\n", "\r"}

RECURSIVE LStrip(_)
LStrip(s) ==
    IF s # <<>> /\ Head(s) \in Whitespace THEN LStrip(Tail(s)) ELSE s

RECURSIVE RStrip(_)
RStrip(s) ==
    IF s # <<>> /\ s[Len(s)] \in Whitespace
    THEN RStrip(SubSeq(s, 1, Len(s) - 1)) ELSE s

\* str.strip()
Strip(s) == RStrip(LStrip(s))

\* str.replace(ch, "")
Remove(s, ch) == SelectSeq(s, LAMBDA c : c # ch)

\* str.startswith(ch)
StartsWith(s, ch) == s # <<>> /\ Head(s) = ch

\* str.rfind(ch), 1-based, 0 when absent
RFind(s, ch) ==
    LET hits == {i \in 1..Len(s) : s[i] = ch}
    IN  IF hits = {} THEN 0 ELSE CHOOSE i \in hits : \A j \in hits : j <= i

\* PurePath.suffix: from the last dot, unless it leads or ends the name
Suffix(p) ==
    LET i == RFind(p.name, ".")
    IN  IF 1 < i /\ i < Len(p.name) THEN SubSeq(p.name, i, Len(p.name))
        ELSE <<>>

\* PurePath.stem
Stem(p) ==
    LET i == RFind(p.name, ".")
    IN  IF 1 < i /\ i < Len(p.name) THEN SubSeq(p.name, 1, i - 1)
        ELSE p.name

\* PurePath.parts
Parts(p) == IF p.name = <<>> THEN p.dirs ELSE Append(p.dirs, p.name)

\* PurePath.parent; Path("") and Path(".") are both the path with no parts
Parent(p) ==
    IF p.dirs = <<>> THEN Path(<<>>, <<>>)
    ELSE Path(SubSeq(p.dirs, 1, Len(p.dirs) - 1), p.dirs[Len(p.dirs)])

Digit(d) == <<"0","1","2","3","4","5","6","7","8","9">>[d + 1]

\* str(idx) in an f-string
RECURSIVE Str(_)
Str(n) == IF n < 10 THEN <<Digit(n)>> ELSE Str(n \div 10) \o <<Digit(n % 10)>>

\* parent / name
Join(parent, name) == Path(Parts(parent), name)

\* zip(a, b): stops at the shorter
Zip(a, b) ==
    LET n == IF Len(a) < Len(b) THEN Len(a) ELSE Len(b)
    IN  [i \in 1..n |-> <<a[i], b[i]>>]

(***************************************************************************)
(* The ChatTTS library, from its documented contract                       *)
(***************************************************************************)
\* Chat.infer(texts): one waveform per text, in order
Infer(ts) == [i \in 1..Len(ts) |-> [audio_of |-> ts[i]]]

\* a plain assignment in place of setdefault
SetDefaultOverwrites(env, value) == value

\* os.environ.setdefault(key, value) on the one key the scripts touch
SetDefault(env, value) == IF env = Unset THEN value ELSE env

\* the `if sys.platform == "darwin": os.environ.setdefault(...)` of each main
MpsFallback(plat, env) == IF plat = "darwin" THEN SetDefault(env, "1") ELSE env

Event(op, arg) == [op |-> op, arg |-> arg]
Call(op, arg) == trace' = Append(trace, Event(op, arg))

\* an uncaught exception: traceback, interpreter exit status 1
Raise(exc) ==
    /\ raised' = exc
    /\ exitCode' = 1
    /\ pc' = "done"

\* main returned or SystemExit(code)
Exit(code) ==
    /\ exitCode' = code
    /\ pc' = "done"
    /\ UNCHANGED raised

(***************************************************************************)
(* Initial states: the script's argv and the world it runs in              *)
(***************************************************************************)
Fresh ==
    /\ platform \in Platforms
    /\ environ \in EnvValues
    /\ environ0 = environ
    /\ trace = <<>>
    /\ loadCalls = <<>>
    /\ inferCalls = <<>>
    /\ written = <<>>
    /\ statuses = <<>>
    /\ texts = <<>>
    /\ wavs = <<>>
    /\ targets = <<>>
    /\ spk = None
    /\ ensured = FALSE
    /\ raised = None
    /\ exitCode = NoExit

\* the namespaces parse_args of spk_infer.py can return
InferArgs ==
    [spk_path : {"pt/seed_2279_restored_emb.pt"},
     text : {<<"H", "i">>, <<>>},
     output : {Path(<<>>, spk_control_wav), Path(<<out_wav>>, out_wav)},
     source : {"local", "huggingface", "custom"},
     custom_path : {"", "/models"}]

InitInfer ==
    /\ script = "spk_infer"
    /\ pc = "setenv"
    /\ args \in InferArgs
    /\ world \in [spk_exists : BOOLEAN, load_ok : BOOLEAN]
    /\ Fresh

(***************************************************************************)
(* examples/cmd/spk_infer.py, main                                         *)
(***************************************************************************)
\* the custom path forwarded whatever the source
InferLoadArgsAnySource(a) ==
    IF a.custom_path # ""
    THEN [source |-> a.source, custom_path |-> a.custom_path]
    ELSE [source |-> a.source, custom_path |-> None]

\* the arguments of the chat.load call of spk_infer.py
InferLoadArgs(a) ==
    IF a.source = "custom" /\ a.custom_path # ""
    THEN [source |-> "custom", custom_path |-> a.custom_path]
    ELSE [source |-> a.source, custom_path |-> None]

InferSetEnv ==
    /\ script = "spk_infer" /\ pc = "setenv"
    /\ environ' = MpsFallback(platform, environ)
    /\ pc' = "parse_args"
    /\ UNCHANGED <<script, platform, environ0, args, world, trace, loadCalls,
                   inferCalls, written, statuses, texts, wavs, targets, spk,
                   ensured, raised, exitCode>>

InferParseArgs ==
    /\ script = "spk_infer" /\ pc = "parse_args"
    /\ Call("parse_args", None)
    /\ pc' = "check_spk"
    /\ UNCHANGED <<script, platform, environ0, environ, args, world, loadCalls,
                   inferCalls, written, statuses, texts, wavs, targets, spk,
                   ensured, raised, exitCode>>

InferCheckSpk ==
    /\ script = "spk_infer" /\ pc = "check_spk"
    /\ Call("exists", "spk")
    /\ IF ~world.spk_exists
       THEN Raise("FileNotFoundError")
       ELSE pc' = "torch_load" /\ UNCHANGED <<raised, exitCode>>
    /\ UNCHANGED <<script, platform, environ0, environ, args, world, loadCalls,
                   inferCalls, written, statuses, texts, wavs, targets, spk,
                   ensured>>

InferTorchLoad ==
    /\ script = "spk_infer" /\ pc = "torch_load"
    /\ Call("torch.load", "spk")
    /\ spk' = "spk_emb_from_file"
    /\ pc' = "chat"
    /\ UNCHANGED <<script, platform, environ0, environ, args, world, loadCalls,
                   inferCalls, written, statuses, texts, wavs, targets,
                   ensured, raised, exitCode>>

InferChat ==
    /\ script = "spk_infer" /\ pc = "chat"
    /\ Call("Chat", None)
    /\ pc' = "load"
    /\ UNCHANGED <<script, platform, environ0, environ, args, world, loadCalls,
                   inferCalls, written, statuses, texts, wavs, targets, spk,
                   ensured, raised, exitCode>>

InferLoad ==
    /\ script = "spk_infer" /\ pc = "load"
    /\ Call("load", InferLoadArgs(args).source)
    /\ loadCalls' = Append(loadCalls, InferLoadArgs(args))
    /\ IF ~world.load_ok
       THEN Raise("RuntimeError")
       ELSE pc' = "infer" /\ UNCHANGED <<raised, exitCode>>
    /\ UNCHANGED <<script, platform, environ0, environ, args, world, inferCalls,
                   written, statuses, texts, wavs, targets, spk, ensured>>

InferInfer ==
    /\ script = "spk_infer" /\ pc = "infer"
    /\ Call("infer", None)
    /\ texts' = <<args.text>>
    /\ inferCalls' = Append(inferCalls, [texts |-> texts', spk_emb |-> spk])
    /\ wavs' = Infer(texts')
    /\ pc' = "save"
    /\ UNCHANGED <<script, platform, environ0, environ, args, world, loadCalls,
                   written, statuses, targets, spk, ensured, raised,
                   exitCode>>

InferSave ==
    /\ script = "spk_infer" /\ pc = "save"
    /\ Call("save", None)
    /\ written' = Append(written, [path |-> args.output, wav |-> wavs[1],
                                   rate |-> SAMPLE_RATE])
    /\ Exit(0)
    /\ UNCHANGED <<script, platform, environ0, environ, args, world, loadCalls,
                   inferCalls, statuses, texts, wavs, targets, spk, ensured>>

NextInfer ==
    \/ InferSetEnv
    \/ InferParseArgs
    \/ InferCheckSpk
    \/ InferTorchLoad
    \/ InferChat
    \/ InferLoad
    \/ InferInfer
    \/ InferSave

(***************************************************************************)
(* spk_emb_demo.py, main                                                   *)
(***************************************************************************)
FileAlphabet == {"a", " ", "#", "\n"}

\* every content of the input text file up to MaxFileLen characters
FileContents == UNION {[1..n -> FileAlphabet] : n \in 0..MaxFileLen}

InitDemo ==
    /\ script = "spk_emb_demo"
    /\ pc = "setenv"
    /\ args = [argv |-> <<>>]
    /\ world \in
         [spk_exists : BOOLEAN, load_ok : BOOLEAN, text_exists : {TRUE},
          text : FileContents]
         \cup
         [spk_exists : BOOLEAN, load_ok : BOOLEAN, text_exists : {FALSE},
          text : {<<>>}]
    /\ Fresh

\* `for line in handle`: the lines of a text file, each with its "\n"
RECURSIVE Lines(_)
Lines(s) ==
    IF s = <<>> THEN <<>>
    ELSE LET nl == {i \in 1..Len(s) : s[i] = "\n"}
             k  == IF nl = {} THEN Len(s)
                   ELSE CHOOSE i \in nl : \A j \in nl : i <= j
         IN  <<SubSeq(s, 1, k)>> \o Lines(SubSeq(s, k + 1, Len(s)))

\* the comment test made on the stripped line
KeepLineStripped(line) ==
    ~(Strip(line) = <<>> \/ StartsWith(Strip(line), "#"))

\* the negation of the `continue` test of the reading loop
KeepLine(line) == ~(Strip(line) = <<>> \/ StartsWith(line, "#"))

\* processed = line.replace("\n", "").strip()
Processed(line) == Strip(Remove(line, "\n"))

\* the reading loop over the lines of the file
RECURSIVE ReadLines(_)
ReadLines(ls) ==
    IF ls = <<>> THEN <<>>
    ELSE LET line == Head(ls)
         IN  IF KeepLine(line) /\ Processed(line) # <<>>
             THEN <<Processed(line)>> \o ReadLines(Tail(ls))
             ELSE ReadLines(Tail(ls))

\* the indexed names used for a single waveform too
DemoTargetsAlwaysIndexed(out, n) ==
    [i \in 1..n |->
        Join(Path(<<>>, <<>>),
             Stem(out) \o <<"_">> \o Str(i - 1) \o Suffix(out))]

\* the paths the n waveforms go to
DemoTargets(out, n) ==
    LET suffix    == IF Suffix(out) # <<>> THEN Suffix(out)
                     ELSE <<".", "w", "a", "v">>
        base_name == IF Suffix(out) # <<>> THEN Stem(out)
                     ELSE IF out.name # <<>> THEN out.name
                     ELSE <<"s","p","k","_","o","u","t","p","u","t">>
        parent    == IF Parent(out) # Path(<<>>, <<>>) THEN Parent(out)
                     ELSE Path(<<>>, <<>>)
    IN  IF n = 1 THEN <<out>>
        ELSE [i \in 1..n |->
                Join(parent, base_name \o <<"_">> \o Str(i - 1) \o suffix)]

\* the targets built for one waveform fewer than there are
WriteAllButLast(ws, ts) ==
    [i \in 1..(Len(Zip(ws, ts)) - 1) |->
        [path |-> Zip(ws, ts)[i][2], wav |-> Zip(ws, ts)[i][1],
         rate |-> SAMPLE_RATE]]

\* the writing loop: one sf.write per pair of the zip
WriteAll(ws, ts) ==
    [i \in 1..Len(Zip(ws, ts)) |->
        [path |-> Zip(ws, ts)[i][2], wav |-> Zip(ws, ts)[i][1],
         rate |-> SAMPLE_RATE]]

DemoSetEnv ==
    /\ script = "spk_emb_demo" /\ pc = "setenv"
    /\ environ' = MpsFallback(platform, environ)
    /\ pc' = "check_spk"
    /\ UNCHANGED <<script, platform, environ0, args, world, trace, loadCalls,
                   inferCalls, written, statuses, texts, wavs, targets, spk,
                   ensured, raised, exitCode>>

DemoCheckSpk ==
    /\ script = "spk_emb_demo" /\ pc = "check_spk"
    /\ Call("exists", "spk")
    /\ IF ~world.spk_exists
       THEN Raise("FileNotFoundError")
       ELSE pc' = "torch_load" /\ UNCHANGED <<raised, exitCode>>
    /\ UNCHANGED <<script, platform, environ0, environ, args, world, loadCalls,
                   inferCalls, written, statuses, texts, wavs, targets, spk,
                   ensured>>

DemoTorchLoad ==
    /\ script = "spk_emb_demo" /\ pc = "torch_load"
    /\ Call("torch.load", "spk")
    /\ spk' = "spk_emb_from_file"
    /\ pc' = "chat"
    /\ UNCHANGED <<script, platform, environ0, environ, args, world, loadCalls,
                   inferCalls, written, statuses, texts, wavs, targets,
                   ensured, raised, exitCode>>

DemoChat ==
    /\ script = "spk_emb_demo" /\ pc = "chat"
    /\ Call("Chat", None)
    /\ pc' = "load"
    /\ UNCHANGED <<script, platform, environ0, environ, args, world, loadCalls,
                   inferCalls, written, statuses, texts, wavs, targets, spk,
                   ensured, raised, exitCode>>

\* the result of chat.load not tested
DemoLoadUnchecked ==
    /\ script = "spk_emb_demo" /\ pc = "load"
    /\ Call("load", "local")
    /\ loadCalls' = Append(loadCalls,
                           [source |-> "local", custom_path |-> None])
    /\ pc' = "check_text"
    /\ UNCHANGED <<script, platform, environ0, environ, args, world,
                   inferCalls, written, statuses, texts, wavs, targets, spk,
                   ensured, raised, exitCode>>

DemoLoad ==
    /\ script = "spk_emb_demo" /\ pc = "load"
    /\ Call("load", "local")
    /\ loadCalls' = Append(loadCalls,
                           [source |-> "local", custom_path |-> None])
    /\ IF ~world.load_ok
       THEN Raise("RuntimeError")
       ELSE pc' = "check_text" /\ UNCHANGED <<raised, exitCode>>
    /\ UNCHANGED <<script, platform, environ0, environ, args, world, inferCalls,
                   written, statuses, texts, wavs, targets, spk, ensured>>

DemoCheckText ==
    /\ script = "spk_emb_demo" /\ pc = "check_text"
    /\ Call("exists", "text")
    /\ IF ~world.text_exists
       THEN Raise("FileNotFoundError")
       ELSE pc' = "read_text" /\ UNCHANGED <<raised, exitCode>>
    /\ UNCHANGED <<script, platform, environ0, environ, args, world, loadCalls,
                   inferCalls, written, statuses, texts, wavs, targets, spk,
                   ensured>>

DemoReadText ==
    /\ script = "spk_emb_demo" /\ pc = "read_text"
    /\ Call("open", "text")
    /\ texts' = ReadLines(Lines(world.text))
    /\ IF texts' = <<>>
       THEN Raise("ValueError")
       ELSE pc' = "infer" /\ UNCHANGED <<raised, exitCode>>
    /\ UNCHANGED <<script, platform, environ0, environ, args, world, loadCalls,
                   inferCalls, written, statuses, wavs, targets, spk,
                   ensured>>

\* the inference call made a second time
DemoInferTwice ==
    /\ script = "spk_emb_demo" /\ pc = "infer"
    /\ trace' = trace \o <<Event("infer", None), Event("infer", None)>>
    /\ inferCalls' = inferCalls \o <<[texts |-> texts, spk_emb |-> spk],
                                     [texts |-> texts, spk_emb |-> spk]>>
    /\ wavs' = Infer(texts)
    /\ pc' = "targets"
    /\ UNCHANGED <<script, platform, environ0, environ, args, world,
                   loadCalls, written, statuses, texts, targets, spk,
                   ensured, raised, exitCode>>

DemoInfer ==
    /\ script = "spk_emb_demo" /\ pc = "infer"
    /\ Call("infer", None)
    /\ inferCalls' = Append(inferCalls, [texts |-> texts, spk_emb |-> spk])
    /\ wavs' = Infer(texts)
    /\ pc' = "targets"
    /\ UNCHANGED <<script, platform, environ0, environ, args, world, loadCalls,
                   written, statuses, texts, targets, spk, ensured, raised,
                   exitCode>>

DemoMakeTargets ==
    /\ script = "spk_emb_demo" /\ pc = "targets"
    /\ Call("mkdir", None)
    /\ targets' = DemoTargets(OUTPUT_FILE, Len(wavs))
    /\ pc' = "write"
    /\ UNCHANGED <<script, platform, environ0, environ, args, world, loadCalls,
                   inferCalls, written, statuses, texts, wavs, spk, ensured,
                   raised, exitCode>>

DemoWrite ==
    /\ script = "spk_emb_demo" /\ pc = "write"
    /\ Call("save", None)
    /\ written' = written \o WriteAll(wavs, targets)
    /\ Exit(0)
    /\ UNCHANGED <<script, platform, environ0, environ, args, world, loadCalls,
                   inferCalls, statuses, texts, wavs, targets, spk, ensured>>

NextDemo ==
    \/ DemoSetEnv
    \/ DemoCheckSpk
    \/ DemoTorchLoad
    \/ DemoChat
    \/ DemoLoad
    \/ DemoCheckText
    \/ DemoReadText
    \/ DemoInfer
    \/ DemoMakeTargets
    \/ DemoWrite

(***************************************************************************)
(* webui_smoke_test.py, check_modules, ensure_chattts, main                *)
(***************************************************************************)
Modules == {REQUIRED_MODULES[i] : i \in 1..Len(REQUIRED_MODULES)}

\* the namespaces parse_args of webui_smoke_test.py can return
SmokeArgs ==
    [model_root : {"/repo"},
     text : {<<"H", "i">>},
     output : {Path(<<>>, smoke_test_wav)},
     speaker : {None, "", "speaker_string"},
     skip_audio : BOOLEAN]

InitSmoke ==
    /\ script = "webui_smoke_test"
    /\ pc = "parse_args"
    /\ args \in SmokeArgs
    /\ world \in
         [importable : {S \in SUBSET Modules :
                           Cardinality(Modules \ S) <= MaxMissing},
          chattts : BOOLEAN, manifest_exists : BOOLEAN, assets_ok : BOOLEAN,
          load_ok : BOOLEAN]
    /\ Fresh

\* check_modules(): one (module, ok, err) per required module, in order
CheckModules(importable) ==
    [i \in 1..Len(REQUIRED_MODULES) |->
        IF REQUIRED_MODULES[i] \in importable
        THEN <<REQUIRED_MODULES[i], TRUE, "">>
        ELSE <<REQUIRED_MODULES[i], FALSE, "ModuleNotFoundError">>]

\* missing = [module for module, ok, _ in module_statuses if not ok]
Missing(sts) == SelectSeq(sts, LAMBDA st : ~st[2])

\* spk = speaker or chat.sample_random_speaker()
Truthy(str) == str # None /\ str # ""

\* the result of ensure_chattts dropped
SmokeExitCodeIgnoresResult(ok) == 0

\* main's exit code from the value ensure_chattts returned
SmokeExitCode(ok) == IF ok THEN 0 ELSE 1

SmokeParseArgs ==
    /\ script = "webui_smoke_test" /\ pc = "parse_args"
    /\ Call("parse_args", None)
    /\ pc' = "setenv"
    /\ UNCHANGED <<script, platform, environ0, environ, args, world, loadCalls,
                   inferCalls, written, statuses, texts, wavs, targets, spk,
                   ensured, raised, exitCode>>

SmokeSetEnv ==
    /\ script = "webui_smoke_test" /\ pc = "setenv"
    /\ environ' = MpsFallback(platform, environ)
    /\ pc' = "check_modules"
    /\ UNCHANGED <<script, platform, environ0, args, world, trace, loadCalls,
                   inferCalls, written, statuses, texts, wavs, targets, spk,
                   ensured, raised, exitCode>>

SmokeCheckModules ==
    /\ script = "webui_smoke_test" /\ pc = "check_modules"
    /\ statuses' = CheckModules(world.importable)
    /\ trace' = trace \o [i \in 1..Len(REQUIRED_MODULES) |->
                             Event("import", REQUIRED_MODULES[i])]
    /\ pc' = "missing"
    /\ UNCHANGED <<script, platform, environ0, environ, args, world, loadCalls,
                   inferCalls, written, texts, wavs, targets, spk, ensured,
                   raised, exitCode>>

\* --skip-audio tested before the list of missing modules
SmokeMissingAfterSkip ==
    /\ script = "webui_smoke_test" /\ pc = "missing"
    /\ IF args.skip_audio
       THEN Exit(0)
       ELSE IF Missing(statuses) # <<>>
       THEN Exit(1)
       ELSE pc' = "skip_audio" /\ UNCHANGED <<raised, exitCode>>
    /\ UNCHANGED <<script, platform, environ0, environ, args, world, trace,
                   loadCalls, inferCalls, written, statuses, texts, wavs,
                   targets, spk, ensured>>

SmokeMissing ==
    /\ script = "webui_smoke_test" /\ pc = "missing"
    /\ IF Missing(statuses) # <<>>
       THEN Exit(1)
       ELSE pc' = "skip_audio" /\ UNCHANGED <<raised, exitCode>>
    /\ UNCHANGED <<script, platform, environ0, environ, args, world, trace, loadCalls,
                   inferCalls, written, statuses, texts, wavs, targets, spk,
                   ensured>>

SmokeSkipAudio ==
    /\ script = "webui_smoke_test" /\ pc = "skip_audio"
    /\ IF args.skip_audio
       THEN Exit(0)
       ELSE pc' = "import_numpy" /\ UNCHANGED <<raised, exitCode>>
    /\ UNCHANGED <<script, platform, environ0, environ, args, world, trace, loadCalls,
                   inferCalls, written, statuses, texts, wavs, targets, spk,
                   ensured>>

\* numpy, torch, torchaudio: torch and torchaudio were imported by
\* check_modules, and numpy is a dependency of gradio and vocos
SmokeImportNumpy ==
    /\ script = "webui_smoke_test" /\ pc = "import_numpy"
    /\ Call("import", "numpy")
    /\ pc' = "import_chattts"
    /\ UNCHANGED <<script, platform, environ0, environ, args, world,
                   loadCalls, inferCalls, written, statuses, texts, wavs,
                   targets, spk, ensured, raised, exitCode>>

SmokeImportChatTTS ==
    /\ script = "webui_smoke_test" /\ pc = "import_chattts"
    /\ Call("import", "ChatTTS")
    /\ IF ~world.chattts
       THEN ensured' = FALSE /\ pc' = "return"
       ELSE pc' = "open_manifest" /\ UNCHANGED ensured
    /\ UNCHANGED <<script, platform, environ0, environ, args, world, loadCalls,
                   inferCalls, written, statuses, texts, wavs, targets, spk,
                   raised, exitCode>>

SmokeOpenManifest ==
    /\ script = "webui_smoke_test" /\ pc = "open_manifest"
    /\ Call("open", "sha256_map.json")
    /\ IF ~world.manifest_exists
       THEN Raise("FileNotFoundError")
       ELSE pc' = "check_assets" /\ UNCHANGED <<raised, exitCode>>
    /\ UNCHANGED <<script, platform, environ0, environ, args, world, loadCalls,
                   inferCalls, written, statuses, texts, wavs, targets, spk,
                   ensured>>

\* the asset check made but its result not acted on
SmokeCheckAssetsUnchecked ==
    /\ script = "webui_smoke_test" /\ pc = "check_assets"
    /\ Call("check_all_assets", args.model_root)
    /\ pc' = "chat"
    /\ UNCHANGED <<script, platform, environ0, environ, args, world,
                   loadCalls, inferCalls, written, statuses, texts, wavs,
                   targets, spk, ensured, raised, exitCode>>

SmokeCheckAssets ==
    /\ script = "webui_smoke_test" /\ pc = "check_assets"
    /\ Call("check_all_assets", args.model_root)
    /\ IF ~world.assets_ok
       THEN ensured' = FALSE /\ pc' = "return"
       ELSE pc' = "chat" /\ UNCHANGED ensured
    /\ UNCHANGED <<script, platform, environ0, environ, args, world, loadCalls,
                   inferCalls, written, statuses, texts, wavs, targets, spk,
                   raised, exitCode>>

SmokeChat ==
    /\ script = "webui_smoke_test" /\ pc = "chat"
    /\ Call("Chat", None)
    /\ pc' = "load"
    /\ UNCHANGED <<script, platform, environ0, environ, args, world, loadCalls,
                   inferCalls, written, statuses, texts, wavs, targets, spk,
                   ensured, raised, exitCode>>

SmokeLoad ==
    /\ script = "webui_smoke_test" /\ pc = "load"
    /\ Call("load", "custom")
    /\ loadCalls' = Append(loadCalls, [source |-> "custom",
                                       custom_path |-> args.model_root])
    /\ IF ~world.load_ok
       THEN ensured' = FALSE /\ pc' = "return"
       ELSE pc' = "speaker" /\ UNCHANGED ensured
    /\ UNCHANGED <<script, platform, environ0, environ, args, world, inferCalls,
                   written, statuses, texts, wavs, targets, spk, raised,
                   exitCode>>

SmokeSpeaker ==
    /\ script = "webui_smoke_test" /\ pc = "speaker"
    /\ IF Truthy(args.speaker)
       THEN spk' = args.speaker /\ UNCHANGED trace
       ELSE spk' = "random_speaker" /\ Call("sample_random_speaker", None)
    /\ pc' = "infer"
    /\ UNCHANGED <<script, platform, environ0, environ, args, world, loadCalls,
                   inferCalls, written, statuses, texts, wavs, targets,
                   ensured, raised, exitCode>>

SmokeInfer ==
    /\ script = "webui_smoke_test" /\ pc = "infer"
    /\ Call("infer", None)
    /\ texts' = <<args.text>>
    /\ inferCalls' = Append(inferCalls, [texts |-> texts', spk_emb |-> spk])
    /\ wavs' = Infer(texts')
    /\ pc' = "save"
    /\ UNCHANGED <<script, platform, environ0, environ, args, world, loadCalls,
                   written, statuses, targets, spk, ensured, raised,
                   exitCode>>

SmokeSave ==
    /\ script = "webui_smoke_test" /\ pc = "save"
    /\ Call("save", None)
    /\ written' = Append(written, [path |-> args.output, wav |-> wavs[1],
                                   rate |-> SAMPLE_RATE])
    /\ ensured' = TRUE
    /\ pc' = "return"
    /\ UNCHANGED <<script, platform, environ0, environ, args, world, loadCalls,
                   inferCalls, statuses, texts, wavs, targets, spk, raised,
                   exitCode>>

SmokeReturn ==
    /\ script = "webui_smoke_test" /\ pc = "return"
    /\ Exit(SmokeExitCode(ensured))
    /\ UNCHANGED <<script, platform, environ0, environ, args, world, trace, loadCalls,
                   inferCalls, written, statuses, texts, wavs, targets, spk,
                   ensured>>

NextSmoke ==
    \/ SmokeParseArgs
    \/ SmokeSetEnv
    \/ SmokeCheckModules
    \/ SmokeMissing
    \/ SmokeSkipAudio
    \/ SmokeImportNumpy
    \/ SmokeImportChatTTS
    \/ SmokeOpenManifest
    \/ SmokeCheckAssets
    \/ SmokeChat
    \/ SmokeLoad
    \/ SmokeSpeaker
    \/ SmokeInfer
    \/ SmokeSave
    \/ SmokeReturn

(***************************************************************************)
(* Specifications                                                          *)
(***************************************************************************)
Init == InitInfer \/ InitDemo \/ InitSmoke

Next == NextInfer \/ NextDemo \/ NextSmoke

\* a run of any of the three scripts
Spec == Init /\ [][Next]_vars

\* a run of spk_infer.py
SpecInfer == InitInfer /\ [][NextInfer]_vars

\* a run of spk_emb_demo.py
SpecDemo == InitDemo /\ [][NextDemo]_vars

\* a run of webui_smoke_test.py
SpecSmoke == InitSmoke /\ [][NextSmoke]_vars

(***************************************************************************)
(* Properties                                                              *)
(***************************************************************************)
Done == pc = "done"

\* the positions of the trace at which `op` was called
Ops(op) == {i \in 1..Len(trace) : trace[i].op = op}
At(op, arg) == {i \in 1..Len(trace) : trace[i] = Event(op, arg)}
Happened(op) == Ops(op) # {}
AllBefore(A, B) == \A i \in A, j \in B : i < j

\* C6: PYTORCH_ENABLE_MPS_FALLBACK changes only from unset to "1" and only
\* on darwin: once the startup step has run it is "1" when the platform is
\* darwin and it was unset, and otherwise what the process was started with
\* (a value of the user is kept, a non-darwin environment is untouched).
C6_MpsFallbackDefault ==
    /\ environ # environ0 =>
          platform = "darwin" /\ environ0 = Unset /\ environ = "1"
    /\ environ0 # Unset => environ = environ0
    /\ platform # "darwin" => environ = environ0
    /\ (platform = "darwin" /\ environ0 = Unset
          /\ pc \notin {"setenv", "parse_args"}) => environ = "1"

\* a darwin run started with the user's "0" has passed the startup step
C6_Witness ==
    /\ platform = "darwin" /\ environ0 = "0"
    /\ pc \notin {"setenv", "parse_args"}
    /\ environ = "0"

\* C8: spk_infer.py calls chat.load at most once, exactly once when the run
\* has reached it, with source = --source; the call carries a custom path
\* exactly when --source is custom and --custom-path is non-empty, and then
\* it is the --custom-path value.
C8_LoadCall ==
    script = "spk_infer" =>
      /\ Len(loadCalls) = Cardinality(Ops("load"))
      /\ Len(loadCalls) <= 1
      /\ pc \in {"infer", "save"} \/ (Done /\ raised # "FileNotFoundError")
            => Len(loadCalls) = 1
      /\ \A i \in 1..Len(loadCalls) :
            /\ loadCalls[i].source = args.source
            /\ loadCalls[i].custom_path # None
                  <=> (args.source = "custom" /\ args.custom_path # "")
            /\ loadCalls[i].custom_path # None
                  => loadCalls[i].custom_path = args.custom_path

\* --source local with a --custom-path given: the load was made without it
C8_Witness ==
    /\ script = "spk_infer"
    /\ args.source = "local" /\ args.custom_path = "/models"
    /\ loadCalls = <<[source |-> "local", custom_path |-> None]>>

\* the lines of the text file the run was started with
FileLines == Lines(world.text)

\* the stripped lines that are not blank and do not begin with '#'
TextLines ==
    LET kept == SelectSeq(FileLines,
                          LAMBDA l : Strip(l) # <<>> /\ l[1] # "#")
    IN  [i \in 1..Len(kept) |-> Strip(kept[i])]

\* C9: once spk_emb_demo.py has read the text file, `texts` is the sequence
\* in file order of the stripped lines that are not blank and whose first
\* character is not '#'; each text is non-empty without leading or trailing
\* whitespace; a line with whitespace before its '#' is kept; the texts
\* passed to chat.infer are these; an empty list raises ValueError with no
\* inference call and no file written.
C9_TextList ==
    (script = "spk_emb_demo" /\ At("open", "text") # {}) =>
      /\ texts = TextLines
      /\ \A i \in 1..Len(texts) :
            /\ texts[i] # <<>>
            /\ texts[i][1] \notin Whitespace
            /\ texts[i][Len(texts[i])] \notin Whitespace
      /\ \A k \in 1..Len(FileLines) :
            (FileLines[k][1] \in Whitespace /\ StartsWith(Strip(FileLines[k]), "#"))
               => \E i \in 1..Len(texts) : texts[i] = Strip(FileLines[k])
      /\ \A c \in 1..Len(inferCalls) : inferCalls[c].texts = TextLines
      /\ TextLines = <<>> =>
            /\ Done /\ raised = "ValueError" /\ exitCode = 1
            /\ inferCalls = <<>> /\ written = <<>> /\ ~Happened("infer")
      /\ (TextLines # <<>> /\ Done) => Len(inferCalls) = 1

\* a file with an indented '#' line and a comment line has been synthesized
C9_Witness ==
    /\ script = "spk_emb_demo"
    /\ world.text = <<" ", "#", "\n", "#", "\n">>
    /\ Len(inferCalls) = 1
    /\ inferCalls[1].texts = << <<"#">> >>

\* <parent>/<stem>_<idx><suffix> for OUTPUT_FILE = spk_controlled.wav
IndexedOutput(idx) ==
    Path(<<>>, <<"s","p","k","_","c","o","n","t","r","o","l","l","e","d">>
                 \o <<"_">> \o <<Digit(idx)>> \o <<".","w","a","v">>)

\* C10: when spk_emb_demo.py has written its output, the n >= 1 waveforms
\* of the inference went to n files, the i-th waveform to the i-th path, no
\* two to the same path: OUTPUT_FILE when n = 1, and the indexed paths
\* spk_controlled_0.wav .. spk_controlled_<n-1>.wav, without OUTPUT_FILE,
\* when n > 1.
C10_OneFilePerWaveform ==
    (script = "spk_emb_demo" /\ Done /\ exitCode = 0) =>
      LET n == Len(wavs)
      IN  /\ n >= 1
          /\ Len(written) = n
          /\ \A i \in 1..n : written[i].wav = wavs[i]
          /\ \A i, j \in 1..n : i # j => written[i].path # written[j].path
          /\ n = 1 => written[1].path = OUTPUT_FILE
          /\ n > 1 =>
                /\ \A i \in 1..n : written[i].path = IndexedOutput(i - 1)
                /\ \A i \in 1..n : written[i].path # OUTPUT_FILE

\* three waveforms have been written
C10_Witness ==
    /\ script = "spk_emb_demo" /\ Done
    /\ Len(wavs) = 3
    /\ Len(written) = 3

\* every required module was imported by check_modules and imported well
AllImported ==
    /\ \A m \in Modules : At("import", m) # {}
    /\ Len(statuses) = Len(REQUIRED_MODULES)
    /\ \A i \in 1..Len(statuses) : statuses[i][2]

\* the run is inside ensure_chattts or has been
InEnsure ==
    \/ pc \in {"import_numpy", "import_chattts", "open_manifest",
               "check_assets", "chat", "load", "speaker", "infer", "save",
               "return"}
    \/ At("import", "numpy") # {}

\* C2: in the smoke test chat.infer and torchaudio.save happen only after
\* every required module imported, then check_all_assets returned true,
\* then chat.load returned true, in this order.
C2_SynthesisLast ==
    (script = "webui_smoke_test"
       /\ (Happened("infer") \/ Happened("save") \/ inferCalls # <<>>
             \/ written # <<>> \/ pc \in {"infer", "save"})) =>
      /\ AllImported /\ world.importable = Modules
      /\ Cardinality(Ops("check_all_assets")) = 1 /\ world.assets_ok
      /\ Cardinality(Ops("load")) = 1 /\ world.load_ok
      /\ AllBefore(UNION {At("import", m) : m \in Modules},
                   Ops("check_all_assets"))
      /\ AllBefore(Ops("check_all_assets"), Ops("load"))
      /\ AllBefore(Ops("load"), Ops("infer"))
      /\ AllBefore(Ops("infer"), Ops("save"))
      /\ Happened("save") => Happened("infer")

\* the preview has been saved
C2_Witness ==
    /\ script = "webui_smoke_test"
    /\ Happened("save")
    /\ Len(written) = 1

\* C3 as stated: with every required module importable the smoke test
\* exits 0 whatever --skip-audio, the ChatTTS import, the asset check and
\* the model load.
C3_Original ==
    (script = "webui_smoke_test" /\ Done /\ world.importable = Modules)
       => exitCode = 0

\* what ensure_chattts needs to return True
EnsureSucceeds ==
    /\ world.chattts /\ world.manifest_exists
    /\ world.assets_ok /\ world.load_ok

\* C3 amended: with every required module importable the smoke test exits 0
\* exactly when --skip-audio is given or the trial synthesis succeeds, and
\* exits 1 otherwise.
C3_Amended ==
    (script = "webui_smoke_test" /\ Done /\ world.importable = Modules) =>
      /\ exitCode \in {0, 1}
      /\ exitCode = 0 <=> (args.skip_audio \/ EnsureSucceeds)
      /\ (exitCode = 0 /\ ~args.skip_audio) => Len(written) = 1

\* all modules import, the asset check fails, the run has ended with 1
C3_Witness ==
    /\ script = "webui_smoke_test" /\ Done
    /\ world.importable = Modules
    /\ ~args.skip_audio
    /\ Happened("check_all_assets") /\ ~world.assets_ok
    /\ exitCode = 1

\* C7: ensure_chattts runs only when every required module imported and
\* --skip-audio was not given; a failed import ends the run with 1 whatever
\* --skip-audio, --skip-audio without a failed import ends it with 0, and in
\* both no model is loaded and nothing is written.
C7_EnsureOnlyWhenAsked ==
    script = "webui_smoke_test" =>
      /\ (InEnsure \/ Happened("check_all_assets") \/ Happened("Chat")
            \/ Happened("load") \/ Happened("infer") \/ Happened("save"))
           => (AllImported /\ world.importable = Modules /\ ~args.skip_audio)
      /\ (Done /\ world.importable # Modules) =>
            /\ exitCode = 1 /\ raised = None
            /\ ~InEnsure /\ ~Happened("Chat")
            /\ loadCalls = <<>> /\ inferCalls = <<>> /\ written = <<>>
      /\ (Done /\ world.importable = Modules /\ args.skip_audio) =>
            /\ exitCode = 0
            /\ ~InEnsure /\ ~Happened("Chat")
            /\ loadCalls = <<>> /\ inferCalls = <<>> /\ written = <<>>

\* --skip-audio with a module that fails to import: ended with 1
C7_Witness ==
    /\ script = "webui_smoke_test" /\ Done
    /\ args.skip_audio
    /\ world.importable # Modules
    /\ exitCode = 1

\* the i-th call of the trace found a required file missing, or was a
\* model load that returned false
FailedAt(i) ==
    \/ trace[i] = Event("exists", "spk") /\ ~world.spk_exists
    \/ trace[i] = Event("exists", "text") /\ ~world.text_exists
    \/ trace[i] = Event("open", "sha256_map.json") /\ ~world.manifest_exists
    \/ trace[i].op = "check_all_assets" /\ ~world.assets_ok
    \/ trace[i].op = "load" /\ ~world.load_ok

\* a file the run needs is missing, or the model will not load
RequiredMissing ==
    \/ script = "spk_infer" /\ (~world.spk_exists \/ ~world.load_ok)
    \/ script = "spk_emb_demo"
         /\ (~world.spk_exists \/ ~world.load_ok \/ ~world.text_exists)
    \/ script = "webui_smoke_test" /\ ~args.skip_audio
         /\ (~world.manifest_exists \/ ~world.assets_ok \/ ~world.load_ok)

\* C1: in each script a missing required file or a model load returning
\* false is the last call the run makes: the run is over (or main is about
\* to return 1), its exit status is non-zero, no inference call was made and
\* no audio file written; a run that needed a missing file never ends with
\* status 0.  (With --skip-audio the smoke test needs no weights.)
C1_FailFast ==
    /\ \A i \in 1..Len(trace) : FailedAt(i) =>
          /\ i = Len(trace)
          /\ pc \in {"done", "return"}
          /\ Done => exitCode # 0
          /\ pc = "return" => ~ensured
          /\ inferCalls = <<>> /\ written = <<>>
          /\ ~Happened("infer") /\ ~Happened("save")
    /\ (Done /\ RequiredMissing) =>
          /\ exitCode # 0
          /\ inferCalls = <<>> /\ written = <<>>

\* spk_emb_demo.py found the text file missing after a good load and ended
C1_Witness ==
    /\ script = "spk_emb_demo" /\ Done
    /\ world.spk_exists /\ world.load_ok /\ ~world.text_exists
    /\ At("exists", "text") # {}
    /\ raised = "FileNotFoundError" /\ exitCode = 1

\* embedding file present, model loads, text given (at least one usable
\* line in the text file)
ValidInputs ==
    \/ script = "spk_infer" /\ world.spk_exists /\ world.load_ok
    \/ script = "spk_emb_demo" /\ world.spk_exists /\ world.load_ok
         /\ world.text_exists /\ TextLines # <<>>

\* --output, respectively OUTPUT_FILE
ConfiguredOutput ==
    IF script = "spk_infer" THEN args.output ELSE OUTPUT_FILE

\* C4 as stated: with valid inputs the run ends with the configured output
\* file written, for any number of usable lines.
C4_Original ==
    (Done /\ ValidInputs) =>
       \E i \in 1..Len(written) : written[i].path = ConfiguredOutput

Audio(path, text) ==
    [path |-> path, wav |-> [audio_of |-> text], rate |-> SAMPLE_RATE]

\* C4 amended: with valid inputs the run ends with status 0; spk_infer.py
\* has written the audio of --text to --output; spk_emb_demo.py has written
\* the audio of its one usable line to OUTPUT_FILE, or, with n > 1 usable
\* lines, the audio of line i to spk_controlled_<i>.wav, and not OUTPUT_FILE.
C4_Amended ==
    (Done /\ ValidInputs) =>
      /\ exitCode = 0 /\ raised = None
      /\ script = "spk_infer" => written = <<Audio(args.output, args.text)>>
      /\ (script = "spk_emb_demo" /\ Len(TextLines) = 1) =>
            written = <<Audio(OUTPUT_FILE, TextLines[1])>>
      /\ (script = "spk_emb_demo" /\ Len(TextLines) > 1) =>
            /\ Len(written) = Len(TextLines)
            /\ \A i \in 1..Len(written) :
                  /\ written[i] = Audio(IndexedOutput(i - 1), TextLines[i])
                  /\ written[i].path # OUTPUT_FILE

\* spk_emb_demo.py has ended after a text file with two usable lines
C4_Witness ==
    /\ script = "spk_emb_demo" /\ Done /\ ValidInputs
    /\ Len(TextLines) = 2
    /\ Len(written) = 2

\* the step of the procedure a call belongs to
Stage(e) ==
    CASE e.op = "parse_args" -> 1
      [] e.op \in {"exists", "open", "torch.load", "import",
                   "check_all_assets"} -> 2
      [] e.op \in {"Chat", "load", "sample_random_speaker"} -> 3
      [] e.op = "infer" -> 4
      [] e.op \in {"mkdir", "save"} -> 5

\* the existence checks of the script's input files have all been made
InputsChecked ==
    /\ script \in {"spk_infer", "spk_emb_demo"} => At("exists", "spk") # {}
    /\ script = "spk_emb_demo" => At("exists", "text") # {}
    /\ script = "webui_smoke_test" =>
          (At("open", "sha256_map.json") # {} /\ Happened("check_all_assets"))

\* C5 as stated: the calls of a run are in the order parse, validate inputs,
\* initialize and load the model, infer, persist; the model is not
\* initialized or loaded before every input file was checked; at most one
\* chat.infer call.
C5_Original ==
    /\ \A i, j \in 1..Len(trace) :
          i < j => Stage(trace[i]) <= Stage(trace[j])
    /\ (Happened("Chat") \/ Happened("load")) => InputsChecked
    /\ Len(inferCalls) <= 1

\* the check and the reading of the input text file of spk_emb_demo.py
TextEvents == At("exists", "text") \cup At("open", "text")

\* C5 amended: the same order, except that spk_emb_demo.py checks and reads
\* its text file after the model was loaded and before the inference; the
\* speaker embedding (smoke test: manifest and assets) is checked before the
\* model is initialized; at most one chat.infer call, exactly one in a run
\* that persists output.
C5_Amended ==
    /\ \A i, j \in (1..Len(trace)) \ TextEvents :
          i < j => Stage(trace[i]) <= Stage(trace[j])
    /\ AllBefore(Ops("load"), TextEvents)
    /\ AllBefore(TextEvents, Ops("infer"))
    /\ (Happened("Chat") \/ Happened("load")) =>
          /\ script \in {"spk_infer", "spk_emb_demo"} =>
                At("exists", "spk") # {}
          /\ script = "webui_smoke_test" =>
                (At("open", "sha256_map.json") # {}
                   /\ Happened("check_all_assets"))
    /\ Len(inferCalls) <= 1
    /\ Cardinality(Ops("infer")) = Len(inferCalls)
    /\ (Happened("save") \/ written # <<>>) => Len(inferCalls) = 1

\* spk_emb_demo.py has ended well, its text file checked after the load
C5_Witness ==
    /\ script = "spk_emb_demo" /\ Done /\ exitCode = 0
    /\ \E i \in Ops("load") : \E j \in At("exists", "text") : i < j
    /\ Len(inferCalls) = 1

====
